---- MODULE Spec2Model ----
(***************************************************************************)
(* RagPipeline (rag-backend/rag.py): retrieve(), _expand_adjacent_pages()  *)
(* and answer(), as a state machine.                                       *)
(*                                                                         *)
(* A text is a sequence of symbols.  The symbols "[", "]", the ten digits, *)
(* " ", "." and "-" are single characters; every other symbol stands for   *)
(* the run of characters it spells ("the", "ok", "cannot answer", ...).    *)
(* The regular expressions of the code are evaluated on these sequences.   *)
(*                                                                         *)
(* A passage is a record [src, page, body]: the metadata "source" ("" when *)
(* missing), the metadata "page" (NoPage when missing) and page_content,   *)
(* which is a record of the properties the code tests: [junk, hits, wordy].*)
(* The metadata key "page_number" is taken to be absent.                   *)
(***************************************************************************)
EXTENDS Integers, Sequences, FiniteSets, TLC

(***************************************************************************)
(* Bounds of the model.                                                    *)
(***************************************************************************)
MaxTokens == 3        \* tokens of a model response (after an optional refusal phrase)
MaxRetryTokens == 1   \* tokens of the response to the retry prompt
MaxIndex == 4         \* passages of an index of SpecStitch
MaxFilterIndex == 2   \* passages of an index of SpecRetrieve
MaxK == 3             \* the argument k of answer()

(***************************************************************************)
(* Sequences.                                                              *)
(***************************************************************************)
Range(s) == {s[i] : i \in 1..Len(s)}

Take(s, n) == SubSeq(s, 1, IF n < Len(s) THEN n ELSE Len(s))

Max2(a, b) == IF a >= b THEN a ELSE b

Min2(a, b) == IF a <= b THEN a ELSE b

\* [x for x in s if x in keep-positions]: the subsequence at the positions of P
RECURSIVE SelectPos(_, _, _)
SelectPos(s, P, i) ==
    IF i > Len(s) THEN <<>>
    ELSE (IF i \in P THEN <<s[i]>> ELSE <<>>) \o SelectPos(s, P, i + 1)

\* the sequences over S of length at most n
SeqsUpTo(S, n) == UNION {[1..m -> S] : m \in 0..n}

RECURSIVE Flatten(_)
Flatten(ss) == IF ss = <<>> THEN <<>> ELSE Head(ss) \o Flatten(Tail(ss))

\* the orders in which a set can be iterated
Orders(S) == {o \in [1..Cardinality(S) -> S] : Range(o) = S}

(***************************************************************************)
(* Text: digits, int() and str() of a marker value.                        *)
(***************************************************************************)
Digits == {"0", "1", "2", "3", "4", "5", "6", "7", "8", "9"}

DigitSeq == <<"0", "1", "2", "3", "4", "5", "6", "7", "8", "9">>

IsDigit(c) == c \in Digits

DigitVal(c) == CHOOSE n \in 0..9 : DigitSeq[n + 1] = c

\* int(n) of a run of digits
RECURSIVE ParseInt(_)
ParseInt(ds) ==
    IF ds = <<>> THEN 0
    ELSE ParseInt(SubSeq(ds, 1, Len(ds) - 1)) * 10 + DigitVal(ds[Len(ds)])

\* str(n), n >= 0
RECURSIVE Decimal(_)
Decimal(n) ==
    IF n < 10 THEN <<DigitSeq[n + 1]>>
    ELSE Decimal(n \div 10) \o <<DigitSeq[(n % 10) + 1]>>

\* f"[{n}]"
MarkerText(n) == <<"[">> \o Decimal(n) \o <<"]">>

(***************************************************************************)
(* Text: the regular expression \[(\d+)\].                                 *)
(***************************************************************************)
\* the position of the "]" closing a match that starts at i, or 0
MarkerEnd(t, i) ==
    IF i < 1 \/ i > Len(t) \/ t[i] # "["
    THEN 0
    ELSE LET ends == {j \in (i + 2)..Len(t) :
                        /\ t[j] = "]"
                        /\ \A m \in (i + 1)..(j - 1) : IsDigit(t[m])}
         IN  IF ends = {} THEN 0 ELSE CHOOSE j \in ends : TRUE

MarkerValue(t, i) == ParseInt(SubSeq(t, i + 1, MarkerEnd(t, i) - 1))

\* re.findall(r"\[(\d+)\]", text), as integers, in textual order
RECURSIVE FindFrom(_, _)
FindFrom(t, i) ==
    IF i > Len(t) THEN <<>>
    ELSE IF MarkerEnd(t, i) # 0
         THEN <<MarkerValue(t, i)>> \o FindFrom(t, MarkerEnd(t, i) + 1)
         ELSE FindFrom(t, i + 1)

FindMarkers(t) == FindFrom(t, 1)

\* {int(n) for n in re.findall(...)}
MarkerSet(t) == Range(FindMarkers(t))

\* bool(re.search(r"\[\d+\]", text))
HasMarker(t) == \E i \in 1..Len(t) : MarkerEnd(t, i) # 0

\* sorted(S), S a finite set of integers
RECURSIVE Sorted(_)
Sorted(S) ==
    IF S = {} THEN <<>>
    ELSE LET m == CHOOSE x \in S : \A y \in S : x <= y
         IN  <<m>> \o Sorted(S \ {m})

\* re.sub(r"\[\d+\]", "", text)
RECURSIVE StripFrom(_, _)
StripFrom(t, i) ==
    IF i > Len(t) THEN <<>>
    ELSE IF MarkerEnd(t, i) # 0
         THEN StripFrom(t, MarkerEnd(t, i) + 1)
         ELSE <<t[i]>> \o StripFrom(t, i + 1)

StripMarkers(t) == StripFrom(t, 1)

(***************************************************************************)
(* Text: renumbering and collapsing of markers (answer(), steps 3 to 5).   *)
(***************************************************************************)
\* a mapping that numbers the old values from max_n down
MarkerMappingDescending(found, max_n) ==
    [old \in Range(Take(found, max_n)) |->
        max_n + 1 - (CHOOSE new \in 1..max_n : found[new] = old)]

\* mapping = {old: new for new, old in enumerate(found_indices[:max_n], start=1)}
MarkerMapping(found, max_n) ==
    [old \in Range(Take(found, max_n)) |->
        CHOOSE new \in 1..max_n : found[new] = old]

\* _renumber_final: mapping.get(old, len(mapping))
RenumberKeepUnknown(mapping, old) ==
    IF old \in DOMAIN mapping THEN mapping[old] ELSE old

RenumberFinal(mapping, old) ==
    IF old \in DOMAIN mapping THEN mapping[old] ELSE Cardinality(DOMAIN mapping)

\* re.sub(r"\[(\d+)\]", _renumber_final, text)
RECURSIVE RenumberFrom(_, _, _)
RenumberFrom(t, i, mapping) ==
    IF i > Len(t) THEN <<>>
    ELSE IF MarkerEnd(t, i) # 0
         THEN MarkerText(RenumberFinal(mapping, MarkerValue(t, i)))
                  \o RenumberFrom(t, MarkerEnd(t, i) + 1, mapping)
         ELSE <<t[i]>> \o RenumberFrom(t, i + 1, mapping)

RenumberText(t, mapping) == RenumberFrom(t, 1, mapping)

\* the end of the last immediate repetition of m after position p
RECURSIVE RepeatEnd(_, _, _)
RepeatEnd(t, m, p) ==
    IF p + Len(m) <= Len(t) /\ SubSeq(t, p + 1, p + Len(m)) = m
    THEN RepeatEnd(t, m, p + Len(m))
    ELSE p

\* re.sub(r"(\[\d+\])(?:\1)+", r"\1", text)
RECURSIVE CollapseFrom(_, _)
CollapseFrom(t, i) ==
    IF i > Len(t) THEN <<>>
    ELSE IF MarkerEnd(t, i) # 0
         THEN LET m == SubSeq(t, i, MarkerEnd(t, i))
              IN  m \o CollapseFrom(t, RepeatEnd(t, m, MarkerEnd(t, i)) + 1)
         ELSE <<t[i]>> \o CollapseFrom(t, i + 1)

CollapseRepeats(t) == CollapseFrom(t, 1)

(***************************************************************************)
(* Text: refusal phrases and the signals of factual content.               *)
(***************************************************************************)
\* refusal_phrases of the retry
RefusalPhrases ==
    {"sorry, we do not have enough information", "insufficient context",
     "not enough information", "cannot answer", "no relevant information"}

\* the phrases of refusal_detected
HidePhrases ==
    {"cannot answer", "insufficient context", "not enough information",
     "no relevant information", "based on the provided context i cannot",
     "sorry, we do not have enough information",
     "my main purpose here is to answer information questions from the file base"}

\* the symbols that spell the word "the" between spaces
SpellsThe ==
    {"based on the provided context i cannot",
     "my main purpose here is to answer information questions from the file base"}

\* the symbols the pattern sorry|cannot|insufficient|not enough finds
ApologyWords ==
    {"sorry, we do not have enough information", "cannot answer",
     "insufficient context", "not enough information",
     "based on the provided context i cannot"}

\* any(p in text.lower().strip() for p in phrases)
ContainsAny(t, phrases) == \E i \in 1..Len(t) : t[i] \in phrases

\* \w at the edge of a symbol
IsWord(c) == c \notin {"[", "]", " ", ".", "-", "bullet"}

\* bool(re.search(r"(\bthe\b|\d+\.|bullet|- )", text, flags=re.I))
HasFactualPhrases(t) ==
    \E i \in 1..Len(t) :
        \/ /\ t[i] = "the"
           /\ (i = 1 \/ ~IsWord(t[i - 1]))
           /\ (i = Len(t) \/ ~IsWord(t[i + 1]))
        \/ t[i] \in SpellsThe
        \/ IsDigit(t[i]) /\ i < Len(t) /\ t[i + 1] = "."
        \/ t[i] = "bullet"
        \/ t[i] = "-" /\ i < Len(t) /\ t[i + 1] = " "

(***************************************************************************)
(* Text: sentences and the automatic markers.                              *)
(***************************************************************************)
\* str.strip()
RECURSIVE LStrip(_)
LStrip(t) == IF t # <<>> /\ Head(t) = " " THEN LStrip(Tail(t)) ELSE t

RECURSIVE RStrip(_)
RStrip(t) ==
    IF t # <<>> /\ t[Len(t)] = " " THEN RStrip(SubSeq(t, 1, Len(t) - 1)) ELSE t

Strip(t) == RStrip(LStrip(t))

\* re.split(r'(?<=[.!?])\s+', text): cur is the sentence being read
RECURSIVE SplitFrom(_, _, _)
SplitFrom(t, i, cur) ==
    IF i > Len(t) THEN <<cur>>
    ELSE IF t[i] = " " /\ i > 1 /\ t[i - 1] = "."
         THEN <<cur>> \o SplitFrom(LStrip(SubSeq(t, i, Len(t))), 1, <<>>)
         ELSE SplitFrom(t, i + 1, Append(cur, t[i]))

SplitSentences(t) == SplitFrom(t, 1, <<>>)

\* not re.search(r"sorry|cannot|insufficient|not enough", s, re.I)
IsFactualSentence(s) == ~ContainsAny(s, ApologyWords)

\* " ".join(sentences)
RECURSIVE JoinSpace(_)
JoinSpace(ss) ==
    IF ss = <<>> THEN <<>>
    ELSE IF Len(ss) = 1 THEN ss[1]
    ELSE ss[1] \o <<" ">> \o JoinSpace(Tail(ss))

\* the loop over factual_sentences, from its i-th element (0-based)
RECURSIVE AttachFrom(_, _, _, _)
AttachFrom(sentences, factual, i, c) ==
    IF i >= Len(factual) THEN sentences
    ELSE LET s == factual[i + 1]
             at == CHOOSE p \in 1..Len(sentences) :
                       /\ sentences[p] = s
                       /\ \A q \in 1..(p - 1) : sentences[q] # s
         IN  AttachFrom([sentences EXCEPT ![at] =
                             Strip(s) \o <<" ">> \o MarkerText((i % c) + 1)],
                        factual, i + 1, c)

\* the automatic markers of a text without markers, c citations
AutoCite(t, c) ==
    LET sentences == SplitSentences(Strip(t))
        factual == SelectSeq(sentences, IsFactualSentence)
    IN  JoinSpace(AttachFrom(sentences, factual, 0, c))

(***************************************************************************)
(* Passages and the vector index.                                          *)
(***************************************************************************)
\* metadata.get("page") of a passage without page metadata (None)
NoPage == -9

\* os.path.basename of the sources of the model
Basename(src) ==
    CASE src = "x/a" -> "a"
      [] src = "y/a" -> "a"
      [] OTHER -> src

\* _basename(doc)
DocBasename(d) == Basename(d.src)

Body(junk, hits, wordy) == [junk |-> junk, hits |-> hits, wordy |-> wordy]

\* a passage that passes every filter
Good == Body(FALSE, 2, TRUE)

Passage(src, page, body) == [src |-> src, page |-> page, body |-> body]

\* retriever.invoke(query) with search_kwargs k: the index is kept in the
\* order of similarity to the query
Search(idx, n) == Take(idx, n)

\* self.vectordb._collection.get(where={"source": src, "page": adj}, limit=1):
\* the documents found (at most one), the collection read in index order
Lookup(idx, src, adj) ==
    LET hits == {i \in 1..Len(idx) : idx[i].src = src /\ idx[i].page = adj}
    IN  IF hits = {} THEN <<>>
        ELSE <<idx[CHOOSE i \in hits : \A j \in hits : i <= j].body>>

(***************************************************************************)
(* retrieve(): steps 2 to 6.                                               *)
(***************************************************************************)
\* Step 2: the passages the generic cleanup keeps
IsClean(d) == ~d.body.junk

Cleaned(raw) == SelectSeq(raw, IsClean)

\* a cleanup fallback that returns the empty cleaned list
ReturnCleaned(raw, k) == <<>>

\* if not cleaned: return raw[:k]
CleanupFallback(raw, k) == Take(raw, k)

\* Step 3: keyword overlap; hasKws is bool(_query_keywords(query))
HitsTwo(d) == d.body.hits >= 2

HitsOne(d) == d.body.hits >= 1

KeywordPool(cleaned, hasKws) ==
    IF hasKws
    THEN IF SelectSeq(cleaned, HitsTwo) # <<>> THEN SelectSeq(cleaned, HitsTwo)
         ELSE IF SelectSeq(cleaned, HitsOne) # <<>> THEN SelectSeq(cleaned, HitsOne)
         ELSE cleaned
    ELSE cleaned

\* page = d.metadata.get("page") or d.metadata.get("page_number"); page is not None
HasNeighborPage(d) == d.page # NoPage /\ d.page # 0

\* Step 4: the passages of pool[:2k] whose neighbors are looked up
NeighborSeeds(pool, k) ==
    {i \in 1..Min2(2 * k, Len(pool)) :
        /\ pool[i].src # ""
        /\ \A j \in 1..(i - 1) : pool[j].src # pool[i].src
        /\ HasNeighborPage(pool[i])}

\* the keys of the lookups of Step 4
NeighborKeys(pool, k) ==
    {<<pool[i].src, adj>> : i \in NeighborSeeds(pool, k), adj \in {-1, 1}}

\* one lookup: the neighbor found, unless the lookup raises (bad) or finds nothing
NeighborAt(idx, src, adj, bad) ==
    IF <<src, adj>> \in bad \/ Lookup(idx, src, adj) = <<>>
    THEN <<>>
    ELSE <<Passage(src, adj, Lookup(idx, src, adj)[1])>>

RECURSIVE NeighborsFrom(_, _, _, _, _)
NeighborsFrom(pool, k, idx, bad, i) ==
    IF i > Min2(2 * k, Len(pool)) THEN <<>>
    ELSE (IF i \in NeighborSeeds(pool, k)
          THEN NeighborAt(idx, pool[i].src, pool[i].page - 1,
                          {<<b[1], pool[i].page + b[2]>> : b \in bad})
                 \o NeighborAt(idx, pool[i].src, pool[i].page + 1,
                               {<<b[1], pool[i].page + b[2]>> : b \in bad})
          ELSE <<>>)
         \o NeighborsFrom(pool, k, idx, bad, i + 1)

\* pool.extend(neighbors); bad: the lookups <<source, -1 or 1>> that raise
Stitched(pool, k, idx, bad) == pool \o NeighborsFrom(pool, k, idx, bad, 1)

\* counts[b] of _majority_source
CountOf(docs, b) == Cardinality({i \in 1..Len(docs) : DocBasename(docs[i]) = b})

\* max(counts, key=counts.get): the last of the keys with the highest count
MajorityLastMax(docs) ==
    IF docs = <<>> THEN ""
    ELSE DocBasename(docs[CHOOSE i \in 1..Len(docs) :
             /\ \A j \in 1..Len(docs) :
                    CountOf(docs, DocBasename(docs[j])) <= CountOf(docs, DocBasename(docs[i]))
             /\ \A j \in (i + 1)..Len(docs) :
                    CountOf(docs, DocBasename(docs[j])) < CountOf(docs, DocBasename(docs[i]))])

\* _majority_source(docs): max(counts, key=counts.get) is the first key, in
\* insertion order, with the highest count; "" stands for None
MajoritySource(docs) ==
    IF docs = <<>> THEN ""
    ELSE DocBasename(docs[CHOOSE i \in 1..Len(docs) :
             /\ \A j \in 1..Len(docs) :
                    CountOf(docs, DocBasename(docs[j])) <= CountOf(docs, DocBasename(docs[i]))
             /\ \A j \in 1..(i - 1) :
                    CountOf(docs, DocBasename(docs[j])) < CountOf(docs, DocBasename(docs[i]))])

PositionsOf(docs, b) == {i \in 1..Len(docs) : DocBasename(docs[i]) = b}

\* Step 5: majority source preference
PreferMajority(pool, k) ==
    LET maj == MajoritySource(pool)
        primary == SelectPos(pool, PositionsOf(pool, maj), 1)
        others == SelectPos(pool, (1..Len(pool)) \ PositionsOf(pool, maj), 1)
    IN  IF maj # "" /\ Len(primary) >= Max2(2, Len(pool) \div 2)
        THEN primary \o Take(others, Max2(0, k - Len(primary)))
        ELSE pool

\* the key of Step 6
Identity(d) == <<DocBasename(d), d.page>>

\* Step 6: first occurrences by identity
UniqueByIdentity(pool) ==
    SelectPos(pool,
              {i \in 1..Len(pool) :
                  \A j \in 1..(i - 1) : Identity(pool[j]) # Identity(pool[i])},
              1)

\* return unique[:k], pool the pool after Step 5
FinalK(pool, k) == Take(UniqueByIdentity(pool), k)

(***************************************************************************)
(* _expand_adjacent_pages(docs, window=2).                                 *)
(***************************************************************************)
Window == 2

\* sources = {d.metadata.get("source") for d in docs if d.metadata.get("source")}
SourcesOf(docs) == {docs[i].src : i \in 1..Len(docs)} \ {""}

\* current_pages of a source
CurrentPages(docs, src) ==
    {docs[i].page : i \in {j \in 1..Len(docs) : docs[j].src = src}}

\* min(current_pages) or min_p - window raises TypeError: a page is None
ExpandRaises(docs) ==
    \E src \in SourcesOf(docs) : NoPage \in CurrentPages(docs, src)

MinOf(S) == CHOOSE x \in S : \A y \in S : x <= y

MaxOf(S) == CHOOSE x \in S : \A y \in S : x >= y

\* the entries of one source that the loop appends, in collection order
ExpandSource(docs, idx, src) ==
    LET cur == CurrentPages(docs, src)
        adds == {i \in 1..Len(idx) :
                    /\ idx[i].src = src
                    /\ idx[i].page # NoPage
                    /\ idx[i].page >= MinOf(cur) - Window
                    /\ idx[i].page <= MaxOf(cur) + Window
                    /\ idx[i].page \notin cur}
    IN  SelectPos(idx, adds, 1)

\* the loop over the set sources, iterated in the order given
RECURSIVE ExpandIn(_, _, _, _)
ExpandIn(docs, idx, order, i) ==
    IF i > Len(order) THEN <<>>
    ELSE ExpandSource(docs, idx, order[i]) \o ExpandIn(docs, idx, order, i + 1)

ExpandAdjacentPages(docs, idx, order) ==
    IF docs = <<>> THEN docs ELSE docs \o ExpandIn(docs, idx, order, 1)

\* [d for d in ctx_docs if len(d.page_content.split()) > 10]
IsWordy(d) == d.body.wordy

WordFilter(docs) == SelectSeq(docs, IsWordy)

(***************************************************************************)
(* Citations.                                                              *)
(***************************************************************************)
\* the citation of one passage: the title is the basename (or "source") and
\* the page, the url is _file_to_url(src) and the page fragment
CitationOf(d) ==
    [title |-> <<IF DocBasename(d) = "" THEN "source" ELSE DocBasename(d), d.page>>,
     url |-> <<DocBasename(d), d.page>>]

RECURSIVE CitationsOf(_)
CitationsOf(docs) ==
    IF docs = <<>> THEN <<>>
    ELSE <<CitationOf(Head(docs))>> \o CitationsOf(Tail(docs))

\* citations = [c for i, c in enumerate(citations, start=1) if i in used_indices]
\* citations = citations[:len(used_indices)]
PruneToUsed(cits, used) ==
    IF used = {} THEN cits
    ELSE Take(SelectPos(cits, used, 1), Cardinality(used))

CitationKey(c) == <<c.title, c.url>>

\* no dedup at all
DedupNothing(cits) == cits

\* 1) Deduplicate citations (by title+url), first occurrences kept
DedupCitations(cits) ==
    SelectPos(cits,
              {i \in 1..Len(cits) :
                  \A j \in 1..(i - 1) : CitationKey(cits[j]) # CitationKey(cits[i])},
              1)

(***************************************************************************)
(* The inputs: model responses and indexes.                                *)
(***************************************************************************)
\* the pieces a model response is made of
Tokens ==
    {<<"ok">>, <<".", " ">>, <<"the">>,
     MarkerText(0), MarkerText(1), MarkerText(2),
     <<"[">>, <<"1", "2", "]">>}

\* a response: an optional refusal phrase, then at most n tokens
ResponsesUpTo(n) ==
    {pre \o Flatten(ts) : pre \in {<<>>, <<"cannot answer">>}, ts \in SeqsUpTo(Tokens, n)}

Responses == ResponsesUpTo(MaxTokens)

RetryResponses == ResponsesUpTo(MaxRetryTokens)

\* the indexes and arguments k of Spec
Brief == Body(FALSE, 2, FALSE)

Junk == Body(TRUE, 0, TRUE)

Scenarios ==
    {<<<<Passage("a", 1, Good), Passage("a", 2, Good), Passage("a", 3, Good)>>, 3>>,
     <<<<Passage("a", 1, Good), Passage("a", 2, Good), Passage("a", 2, Good)>>, 1>>,
     <<<<Passage("a", 1, Good), Passage("b", 1, Good)>>, 1>>,
     <<<<Passage("a", 1, Brief)>>, 1>>,
     <<<<Passage("a", 1, Junk), Passage("a", 1, Junk), Passage("a", 2, Junk)>>, 3>>,
     <<<<Passage("a", NoPage, Good)>>, 1>>,
     <<<<Passage("a", 1, Good), Passage("a", NoPage, Good)>>, 2>>,
     <<<<>>, 1>>,
     <<<<Passage("a", 1, Good), Passage("b", 1, Good), Passage("c", 1, Good)>>, 1>>,
     <<<<Passage("a", 1, Junk), Passage("a", 1, Junk), Passage("b", 1, Junk),
         Passage("b", 1, Junk)>>, 2>>,
     <<<<Passage("a", 0, Good), Passage("a", 1, Good)>>, 1>>}

\* the indexes of SpecRetrieve: one source, every kind of page_content
FilterBodies ==
    {Body(TRUE, 0, w) : w \in BOOLEAN}
        \cup {Body(FALSE, h, w) : h \in 0..2, w \in BOOLEAN}

FilterPassages == {Passage("a", p, b) : p \in {1, 2}, b \in FilterBodies}

FilterIndexes == SeqsUpTo(FilterPassages, MaxFilterIndex)

\* the indexes of SpecStitch: two sources and a passage without source
\* metadata, passages that pass every filter
StitchPassages ==
    {Passage(s, p, Good) : s \in {"a", "b"}, p \in {1, 2}} \cup {Passage("", 1, Good)}

StitchIndexes == SeqsUpTo(StitchPassages, MaxIndex)

(***************************************************************************)
(* The state of one call of answer().                                      *)
(***************************************************************************)
VARIABLES
    index,          \* self.vectordb: the passages, most similar to the query first
    k,              \* the argument k of answer()
    hasKws,         \* bool(_query_keywords(query))
    pc,             \* the position in answer() and retrieve()
    rk,             \* the argument k of the running retrieve()
    ret,            \* where the running retrieve() returns to
    raw,            \* retrieve(): raw
    pool,           \* retrieve(): pool, after pool.extend(neighbors)
    docs,           \* what the last retrieve() returned
    ctx_docs,       \* answer(): ctx_docs
    prompt,         \* the passages numbered in the last prompt sent to the model
    built,          \* the citations as built from the passages of ctx_docs
    citations,      \* answer(): citations
    text,           \* answer(): text
    response,       \* the model response that the reconciliation starts from
    log,            \* the outcomes of the model invocations, in order
    seen_keys,      \* the retry: seen_keys
    all_attempted,  \* the retry: all_attempted
    added_docs,     \* the retry: added_docs
    pass_i,         \* the retry: pass_i
    err,            \* the exception answer() raised, "none" if none
    collection,     \* the collection self.vectordb refers to: "complete", "partial", "deleted"
    version,        \* how many times self.vectordb has been built
    reload_pc,      \* the position in reload()
    chunks,         \* reload(): the chunks from_documents has added so far
    reads,          \* the version and state of the index at each read of answer()
    raised_lookups  \* the <<source, page>> whose lookup raised in Step 4 of the running retrieve()

vars ==
    <<index, k, hasKws, pc, rk, ret, raw, pool, docs, ctx_docs, prompt, built,
      citations, text, response, log, seen_keys, all_attempted, added_docs, pass_i, err,
      collection, version, reload_pc, chunks, reads, raised_lookups>>

retrieveVars == <<rk, ret, raw, pool, docs>>

retryVars == <<seen_keys, all_attempted, added_docs, pass_i>>

inputVars == <<index, k, hasKws>>

reloadVars == <<collection, version, reload_pc, chunks>>

pipeVars == <<reloadVars, reads, raised_lookups>>

InitWith(inputs, kws) ==
    /\ \E in \in inputs : index = in[1] /\ k = in[2]
    /\ hasKws \in kws
    /\ pc = "start"
    /\ rk = 0
    /\ ret = "none"
    /\ raw = <<>>
    /\ pool = <<>>
    /\ docs = <<>>
    /\ ctx_docs = <<>>
    /\ prompt = <<>>
    /\ built = <<>>
    /\ citations = <<>>
    /\ text = <<>>
    /\ response = <<>>
    /\ log = <<>>
    /\ seen_keys = {}
    /\ all_attempted = <<>>
    /\ added_docs = <<>>
    /\ pass_i = 0
    /\ err = "none"
    /\ collection = "complete"
    /\ version = 1
    /\ reload_pc = "idle"
    /\ chunks = 0
    /\ reads = <<>>
    /\ raised_lookups = {}

Init == InitWith(Scenarios, {TRUE})

InitRetrieve == InitWith(FilterIndexes \X (1..MaxK), BOOLEAN)

InitStitch == InitWith(StitchIndexes \X (1..MaxK), {TRUE})

(***************************************************************************)
(* retrieve(query, k).                                                     *)
(***************************************************************************)
\* self.retrieve(query, k=kk), returning to site
CallRetrieve(kk, site) ==
    /\ rk' = kk
    /\ ret' = site
    /\ pc' = "search"
    /\ UNCHANGED <<raw, pool, docs>>

\* ctx_docs = self.retrieve(query, k=k)
Start ==
    /\ pc = "start"
    /\ CallRetrieve(k, "expand")
    /\ UNCHANGED <<inputVars, pipeVars, ctx_docs, prompt, built, citations, text, response, log,
                   retryVars, err>>

\* what a read of self.vectordb sees: the version and the state of its collection
Seen == [version |-> version, state |-> collection]

\* Step 1: the wide recall pool, read from the collection of self.vectordb
SearchStep ==
    /\ pc = "search"
    /\ collection # "deleted"
    /\ raw' = Search(index, rk * 4)
    /\ reads' = Append(reads, Seen)
    /\ pc' = "stitch"
    /\ UNCHANGED <<inputVars, reloadVars, raised_lookups, rk, ret, pool, docs, ctx_docs, prompt, built, citations, text,
                   response, log, retryVars, err>>

\* the lookups that may raise: none, one of them, or all
LookupFailures(keys) == {{}} \cup {{x} : x \in keys} \cup {keys}

\* the <<source, page>> of the lookups bad of Step 4
RaisedKeys(ps, kk, bad) ==
    {<<ps[x[1]].src, ps[x[1]].page + x[2]>> :
        x \in {y \in NeighborSeeds(ps, kk) \X {-1, 1} : <<ps[y[1]].src, y[2]>> \in bad}}

\* the lookups that raise in Step 4: every lookup if the collection is deleted
StitchFailures(keys) == IF collection = "deleted" THEN {keys} ELSE LookupFailures(keys)

\* Steps 2 to 4: cleanup (return raw[:k] if nothing is left), keyword overlap,
\* neighbors
StitchStep ==
    /\ pc = "stitch"
    /\ IF Cleaned(raw) = <<>>
       THEN /\ docs' = CleanupFallback(raw, rk)
            /\ pool' = <<>>
            /\ pc' = ret
            /\ reads' = reads
            /\ raised_lookups' = {}
       ELSE /\ \E bad \in StitchFailures(NeighborKeys(KeywordPool(Cleaned(raw), hasKws), rk)) :
                   /\ pool' = Stitched(KeywordPool(Cleaned(raw), hasKws), rk, index, bad)
                   /\ raised_lookups' = RaisedKeys(KeywordPool(Cleaned(raw), hasKws), rk, bad)
            /\ pc' = "prefer"
            /\ docs' = docs
            /\ reads' = IF NeighborKeys(KeywordPool(Cleaned(raw), hasKws), rk) = {}
                        THEN reads
                        ELSE Append(reads, Seen)
    /\ UNCHANGED <<inputVars, reloadVars, rk, ret, raw, ctx_docs, prompt, built, citations, text,
                   response, log, retryVars, err>>

\* Steps 5 and 6: majority source preference, dedup, return unique[:k]
PreferStep ==
    /\ pc = "prefer"
    /\ \E preferred \in {PreferMajority(pool, rk)} : docs' = FinalK(preferred, rk)
    /\ raised_lookups' = {}
    /\ pc' = ret
    /\ UNCHANGED <<inputVars, reloadVars, reads, rk, ret, raw, pool, ctx_docs, prompt, built, citations, text,
                   response, log, retryVars, err>>

(***************************************************************************)
(* answer(query, k): the context.                                          *)
(***************************************************************************)
\* ctx_docs = self._expand_adjacent_pages(ctx_docs, window=2), the word filter,
\* and the second retrieve() if nothing is left
ExpandFilter ==
    /\ pc = "expand"
    /\ docs # <<>> => collection # "deleted"
    /\ reads' = IF docs = <<>> THEN reads ELSE Append(reads, Seen)
    /\ IF ExpandRaises(docs)
       THEN /\ pc' = "raised"
            /\ err' = "TypeError"
            /\ UNCHANGED <<ctx_docs, retrieveVars>>
       ELSE /\ \E order \in Orders(SourcesOf(docs)) :
                   ctx_docs' = WordFilter(ExpandAdjacentPages(docs, index, order))
            /\ err' = err
            /\ IF ctx_docs' = <<>>
               THEN CallRetrieve(k, "refill")
               ELSE pc' = "prompt" /\ UNCHANGED retrieveVars
    /\ UNCHANGED <<inputVars, reloadVars, raised_lookups, prompt, built, citations, text,
                   response, log, retryVars>>

\* ctx_docs = self.retrieve(query, k=k), the retry without the soft filter
Refill ==
    /\ pc = "refill"
    /\ ctx_docs' = docs
    /\ pc' = "prompt"
    /\ UNCHANGED <<inputVars, pipeVars, retrieveVars, prompt, built, citations, text, response, log,
                   retryVars, err>>

\* the numbered context block, the citations and the prompt
BuildPrompt ==
    /\ pc = "prompt"
    /\ prompt' = ctx_docs
    /\ built' = CitationsOf(ctx_docs)
    /\ citations' = CitationsOf(ctx_docs)
    /\ pc' = "generate"
    /\ UNCHANGED <<inputVars, pipeVars, retrieveVars, ctx_docs, text, response, log, retryVars, err>>

(***************************************************************************)
(* answer(query, k): the model invocations and the retry.                  *)
(***************************************************************************)
\* resp = self.llm.invoke(prompt): a response, or the invocation raises and
\* answer() raises with it
Generate(R) ==
    /\ pc = "generate"
    /\ \/ /\ \E r \in R : text' = r /\ response' = r
          /\ log' = Append(log, "ok")
          /\ pc' = "check"
          /\ err' = err
       \/ /\ log' = Append(log, "fail")
          /\ pc' = "raised"
          /\ err' = "ModelUnavailable"
          /\ UNCHANGED <<text, response>>
    /\ UNCHANGED <<inputVars, pipeVars, retrieveVars, ctx_docs, prompt, built, citations, retryVars>>

\* key = (d.metadata.get("source"), d.metadata.get("page"))
RetryKey(d) == <<d.src, d.page>>

\* a retry pass that takes every passage retrieved
UniqueNewAll(new_docs, seen) == new_docs

\* unique_new: the passages of new_docs whose key is neither in seen nor the
\* key of an earlier passage of new_docs
UniqueNew(new_docs, seen) ==
    SelectPos(new_docs,
              {i \in 1..Len(new_docs) :
                  /\ RetryKey(new_docs[i]) \notin seen
                  /\ \A j \in 1..(i - 1) : RetryKey(new_docs[j]) # RetryKey(new_docs[i])},
              1)

\* the number of retry passes: range(2)
RetryPasses == 2

\* if any(p in normalized_text for p in refusal_phrases): the retry starts
CheckRefusal ==
    /\ pc = "check"
    /\ IF ContainsAny(text, RefusalPhrases)
       THEN /\ seen_keys' = {RetryKey(ctx_docs[i]) : i \in 1..Len(ctx_docs)}
            /\ added_docs' = <<>>
            /\ all_attempted' = ctx_docs
            /\ pass_i' = 0
            /\ CallRetrieve(k * 2, "retry")
       ELSE /\ pc' = "prune"
            /\ UNCHANGED <<retryVars, retrieveVars>>
    /\ UNCHANGED <<inputVars, pipeVars, ctx_docs, prompt, built, citations, text, response, log, err>>

\* a retry that invokes the model whatever the retrieval added
RetryAlways(added) == TRUE

\* if added_docs: the retry prompt is built and the model invoked again
RetryInvokes(added) == added # <<>>

\* one pass of the retry loop, from the return of its retrieve(); at the end of
\* the loop, the extended context and the retry prompt
RetryPass ==
    /\ pc = "retry"
    /\ LET new == UniqueNew(docs, seen_keys)
           attempted == all_attempted \o new
           added == added_docs \o new
           more == /\ new # <<>>
                   /\ Len(attempted) < Len(ctx_docs) + 2
                   /\ pass_i + 1 < RetryPasses
       IN  /\ seen_keys' = seen_keys \cup {RetryKey(new[i]) : i \in 1..Len(new)}
           /\ all_attempted' = attempted
           /\ added_docs' = added
           /\ IF more
              THEN /\ pass_i' = pass_i + 1
                   /\ CallRetrieve(k * (pass_i + 1 + 2), "retry")
                   /\ UNCHANGED <<ctx_docs, prompt>>
              ELSE /\ pass_i' = pass_i
                   /\ UNCHANGED retrieveVars
                   /\ IF RetryInvokes(added)
                      THEN /\ ctx_docs' = attempted
                           /\ prompt' = attempted
                           /\ pc' = "retry_generate"
                      ELSE /\ pc' = "prune"
                           /\ UNCHANGED <<ctx_docs, prompt>>
    /\ UNCHANGED <<inputVars, pipeVars, built, citations, text, response, log, err>>

\* where answer() goes on when the retry invocation raises
RetryFailurePropagates == "raised"

RetryFailurePc == "prune"

\* resp_retry = self.llm.invoke(retry_prompt) in try/except: the new response
\* is adopted, or the invocation raises and the text is kept
RetryGenerate(R) ==
    /\ pc = "retry_generate"
    /\ \/ /\ \E r \in R : text' = r /\ response' = r
          /\ log' = Append(log, "ok")
          /\ pc' = "prune"
          /\ err' = err
       \/ /\ log' = Append(log, "fail")
          /\ pc' = RetryFailurePc
          /\ err' = IF RetryFailurePc = "raised" THEN "ModelUnavailable" ELSE err
          /\ UNCHANGED <<text, response>>
    /\ UNCHANGED <<inputVars, pipeVars, retrieveVars, ctx_docs, prompt, built, citations, retryVars>>

(***************************************************************************)
(* answer(query, k): the reconciliation of markers and citations.          *)
(***************************************************************************)
\* the citations the text uses
Prune ==
    /\ pc = "prune"
    /\ citations' = PruneToUsed(citations, MarkerSet(text))
    /\ pc' = "dedup"
    /\ UNCHANGED <<inputVars, pipeVars, retrieveVars, ctx_docs, prompt, built, text, response, log,
                   retryVars, err>>

\* if citations: 1) deduplicate
Dedup ==
    /\ pc = "dedup"
    /\ IF citations = <<>>
       THEN pc' = "hide" /\ UNCHANGED citations
       ELSE pc' = "renumber" /\ citations' = DedupCitations(citations)
    /\ UNCHANGED <<inputVars, pipeVars, retrieveVars, ctx_docs, prompt, built, text, response, log,
                   retryVars, err>>

\* max_n = min(len(found_indices), len(citations))
MaxN(t, cits) == Min2(Cardinality(MarkerSet(t)), Len(cits))

\* 2) to 4): the mapping of the text
MappingOf(t, cits) == MarkerMapping(Sorted(MarkerSet(t)), MaxN(t, cits))

\* 6) citations[:len(mapping)]
TrimmedCitations(cits, mapping) == Take(cits, Cardinality(DOMAIN mapping))

Renumber ==
    /\ pc = "renumber"
    /\ \E mapping \in {MappingOf(text, citations)} :
          /\ \E renumbered \in {RenumberText(text, mapping)} :
                 text' = CollapseRepeats(renumbered)
          /\ citations' = TrimmedCitations(citations, mapping)
    /\ pc' = "hide"
    /\ UNCHANGED <<inputVars, pipeVars, retrieveVars, ctx_docs, prompt, built, response, log, retryVars, err>>

\* refusal_detected and not has_factual_phrases
IsPureRefusal(t) == ContainsAny(t, HidePhrases) /\ ~HasFactualPhrases(t)

\* the text and the citations after the refusal is hidden
HiddenText(t) == IF IsPureRefusal(t) THEN StripMarkers(t) ELSE t

HiddenCitations(t, cits) == IF IsPureRefusal(t) THEN <<>> ELSE cits

\* if not re.search(r"\[\d+\]", text) and citations
AutoCiteApplies(t, cits) == ~HasMarker(t) /\ cits # <<>>

\* the text answer() returns
FinalText(t, cits) ==
    IF AutoCiteApplies(HiddenText(t), HiddenCitations(t, cits))
    THEN AutoCite(HiddenText(t), Len(HiddenCitations(t, cits)))
    ELSE HiddenText(t)

\* hide the citations of a refusal, add the automatic markers, return
Finish ==
    /\ pc = "hide"
    /\ text' = FinalText(text, citations)
    /\ citations' = HiddenCitations(text, citations)
    /\ pc' = "done"
    /\ UNCHANGED <<inputVars, pipeVars, retrieveVars, ctx_docs, prompt, built, response, log, retryVars, err>>

(***************************************************************************)
(* reload(), run by /api/reload and /api/upload while answer() runs in a   *)
(* worker thread of /api/chat.                                             *)
(***************************************************************************)
\* the chunks of the documents of DOCS_DIR at the time of the reload
NewDocs == <<Passage("a", 2, Good), Passage("b", 1, Good)>>

answerVars ==
    <<k, hasKws, pc, retrieveVars, ctx_docs, prompt, built, citations, text, response, log,
      retryVars, err, reads, raised_lookups>>

\* self.vectordb.delete_collection() in try/except: the collection is deleted,
\* or the call raises and reload() goes on with the collection as it is
ReloadDelete ==
    /\ reload_pc = "idle"
    /\ reload_pc' = "build"
    /\ \/ collection' = "deleted"
       \/ collection' = collection
    /\ UNCHANGED <<index, version, chunks, answerVars>>

\* Chroma.from_documents(...) adds a chunk to the collection "site-docs": a new
\* collection if the old one was deleted, which self.vectordb does not refer
\* to yet, else the collection that self.vectordb refers to
ReloadAdd ==
    /\ reload_pc = "build"
    /\ chunks < Len(NewDocs)
    /\ chunks' = chunks + 1
    /\ IF collection = "deleted"
       THEN UNCHANGED <<index, collection>>
       ELSE /\ index' = Append(index, NewDocs[chunks + 1])
            /\ collection' = "partial"
    /\ UNCHANGED <<version, reload_pc, answerVars>>

\* the embeddings, the loader or from_documents raise: reload() raises and
\* self.vectordb stays what it is
ReloadBuildFails ==
    /\ reload_pc = "build"
    /\ reload_pc' = "failed"
    /\ UNCHANGED <<index, collection, version, chunks, answerVars>>

\* self.vectordb = the collection built
ReloadPublish ==
    /\ reload_pc = "build"
    /\ chunks = Len(NewDocs)
    /\ reload_pc' = "done"
    /\ version' = version + 1
    /\ collection' = "complete"
    /\ index' = IF collection = "deleted" THEN NewDocs ELSE index
    /\ UNCHANGED <<chunks, answerVars>>

\* retriever.invoke(query) on a deleted collection raises, and answer() with it
SearchRaises ==
    /\ pc = "search"
    /\ collection = "deleted"
    /\ reads' = Append(reads, Seen)
    /\ pc' = "raised"
    /\ err' = "IndexUnavailable"
    /\ UNCHANGED <<inputVars, reloadVars, raised_lookups, retrieveVars, ctx_docs, prompt,
                   built, citations, text, response, log, retryVars>>

\* self.vectordb._collection.get(...) of _expand_adjacent_pages on a deleted
\* collection raises, and answer() with it
ExpandIndexRaises ==
    /\ pc = "expand"
    /\ docs # <<>>
    /\ collection = "deleted"
    /\ reads' = Append(reads, Seen)
    /\ pc' = "raised"
    /\ err' = "IndexUnavailable"
    /\ UNCHANGED <<inputVars, reloadVars, raised_lookups, retrieveVars, ctx_docs, prompt,
                   built, citations, text, response, log, retryVars>>

\* the indexes and arguments k of SpecReload
ReloadScenarios ==
    {<<<<Passage("a", 1, Good)>>, 1>>,
     <<<<Passage("a", 1, Good), Passage("a", 3, Good)>>, 2>>,
     <<<<Passage("a", 1, Brief)>>, 1>>,
     <<<<Passage("a", 1, Junk)>>, 1>>}

InitReload == InitWith(ReloadScenarios, {TRUE})

(***************************************************************************)
(* The specifications.                                                     *)
(***************************************************************************)
\* the context of answer() while reload() runs
NextReload ==
    \/ Start
    \/ SearchStep
    \/ StitchStep
    \/ PreferStep
    \/ ExpandFilter
    \/ Refill
    \/ BuildPrompt
    \/ SearchRaises
    \/ ExpandIndexRaises
    \/ ReloadDelete
    \/ ReloadAdd
    \/ ReloadBuildFails
    \/ ReloadPublish

\* retrieve() and the context of answer()
NextRetrieve ==
    \/ Start
    \/ SearchStep
    \/ StitchStep
    \/ PreferStep
    \/ ExpandFilter
    \/ Refill
    \/ BuildPrompt

Next ==
    \/ Start
    \/ SearchStep
    \/ StitchStep
    \/ PreferStep
    \/ ExpandFilter
    \/ Refill
    \/ BuildPrompt
    \/ Generate(Responses)
    \/ CheckRefusal
    \/ RetryPass
    \/ RetryGenerate(RetryResponses)
    \/ Prune
    \/ Dedup
    \/ Renumber
    \/ Finish

\* answer() on the indexes of Scenarios, every model response
Spec == Init /\ [][Next]_vars

\* the context of answer() on one source, every kind of page_content
SpecRetrieve == InitRetrieve /\ [][NextRetrieve]_vars

\* the context of answer() on two sources
SpecStitch == InitStitch /\ [][NextRetrieve]_vars

\* answer() up to its first prompt, interleaved with one reload()
SpecReload == InitReload /\ [][NextReload]_vars

\* answer() with the short model responses at both invocations
NextLive ==
    \/ Start
    \/ SearchStep
    \/ StitchStep
    \/ PreferStep
    \/ ExpandFilter
    \/ Refill
    \/ BuildPrompt
    \/ Generate(RetryResponses)
    \/ CheckRefusal
    \/ RetryPass
    \/ RetryGenerate(RetryResponses)
    \/ Prune
    \/ Dedup
    \/ Renumber
    \/ Finish

\* answer() runs to its end: each statement is executed once its collaborators
\* (index, model) have returned
SpecLive == Init /\ [][NextLive]_vars /\ WF_vars(NextLive)

(***************************************************************************)
(* The claims.                                                             *)
(***************************************************************************)
Returned == pc = "done"

\* C1: whenever answer() returns (text, citations), the values of the [n]
\* markers of the text are exactly 1..N, N the number of citations returned.
C1_MarkersAreOneToN ==
    Returned => MarkerSet(text) = 1..Len(citations)

\* C2: a retrieved passage without page metadata is never an error: answer()
\* never raises in the adjacent-page expansion.
C2_NoPageIsNoError ==
    (\E i \in 1..Len(docs) : docs[i].page = NoPage) => err # "TypeError"

\* the keys of the citations are pairwise distinct
DistinctKeys(cits) ==
    \A i, j \in 1..Len(cits) : i # j => CitationKey(cits[i]) # CitationKey(cits[j])

\* the case of C3: one invocation, the response carries the markers 2, 2, 1
\* in this order and is no refusal, 3 citations of 3 different passages were
\* built
C3_Case ==
    /\ Returned
    /\ log = <<"ok">>
    /\ FindMarkers(response) = <<2, 2, 1>>
    /\ ~IsPureRefusal(response)
    /\ Len(built) = 3
    /\ DistinctKeys(built)

\* no marker of the text is immediately followed by the same marker
NoImmediateRepeat(t) ==
    \A i \in 1..Len(t) :
        (MarkerEnd(t, i) # 0 /\ 2 * MarkerEnd(t, i) - i + 1 <= Len(t)) =>
            SubSeq(t, MarkerEnd(t, i) + 1, 2 * MarkerEnd(t, i) - i + 1)
                # SubSeq(t, i, MarkerEnd(t, i))

\* C3 as claimed: first-seen order, old marker 2 becomes [1] and old marker 1
\* becomes [2], 2 citations are returned, immediate repetitions are collapsed.
C3_FirstSeenOrder ==
    C3_Case =>
        /\ FindMarkers(text) \in {<<1, 2>>, <<1, 1, 2>>}
        /\ NoImmediateRepeat(text)
        /\ Len(citations) = 2

\* C3 as amended: ascending order of the old values, marker 1 stays [1] and
\* marker 2 stays [2]; 2 citations are returned, the first two built;
\* immediate repetitions are collapsed and the rest of the text is kept.
C3_AscendingOrder ==
    C3_Case =>
        /\ FindMarkers(text) \in {<<2, 1>>, <<2, 2, 1>>}
        /\ NoImmediateRepeat(text)
        /\ StripMarkers(text) = StripMarkers(response)
        /\ citations = Take(built, 2)

C3_Witness ==
    /\ C3_Case
    /\ FindMarkers(text) = <<2, 1>>

\* C4: a response without markers that is no refusal, at least one citation
\* built: the text returned carries the cyclic automatic markers and the
\* citations returned are not empty.
C4_AutoCitation ==
    (/\ Returned
     /\ ~HasMarker(response)
     /\ ~ContainsAny(response, HidePhrases)
     /\ Len(built) >= 1) =>
        /\ citations # <<>>
        /\ text = AutoCite(response, Len(built))

\* C5: a response with a refusal phrase and no signal of factual content:
\* no citations are returned, the text returned has no marker and is the
\* response without its markers.
C5_RefusalClearsCitations ==
    (/\ Returned
     /\ ContainsAny(response, HidePhrases)
     /\ ~HasFactualPhrases(response)) =>
        /\ citations = <<>>
        /\ ~HasMarker(text)
        /\ text = StripMarkers(response)

\* s without the repetitions of an element right after itself
RECURSIVE Squeeze(_)
Squeeze(s) ==
    IF Len(s) < 2 THEN s
    ELSE IF s[1] = s[2] THEN Squeeze(Tail(s))
    ELSE <<s[1]>> \o Squeeze(Tail(s))

\* the rank of v among the values of D, in ascending order
RankIn(D, v) == Cardinality({w \in D : w <= v})

\* the markers expected after renumbering: the rank of the old value, or n
\* for a value whose rank exceeds n
ExpectedMarkers(old, n) ==
    [i \in 1..Len(old) |->
        IF RankIn(Range(old), old[i]) <= n THEN RankIn(Range(old), old[i]) ELSE n]

\* C6: the renumbering step, on a text with the set D of marker values, not
\* empty, and c >= 1 citations: afterwards the marker values of the text are
\* exactly 1..min(|D|, c), with no 0 and no value above c; each marker is the
\* rank of its old value, or min(|D|, c) if the old value has no mapping
\* entry; the citations are the first min(|D|, c).
C6_RenumberOntoRange ==
    [][(pc = "renumber" /\ MarkerSet(text) # {} /\ Len(citations) >= 1) =>
          LET n == Min2(Cardinality(MarkerSet(text)), Len(citations))
          IN  /\ MarkerSet(text') = 1..n
              /\ 0 \notin MarkerSet(text')
              /\ \A v \in MarkerSet(text') : v <= Len(citations)
              /\ Squeeze(FindMarkers(text')) = Squeeze(ExpectedMarkers(FindMarkers(text), n))
              /\ citations' = Take(citations, n)]_vars

\* the renumbering has acted on a text with more marker values than citations
C6_Witness ==
    /\ pc = "hide"
    /\ citations # <<>>
    /\ Cardinality(MarkerSet(response)) > Len(citations)
    /\ response # text

\* retrieve() has returned
RetrieveReturned == pc \in {"expand", "refill", "retry"}

\* C7: for k >= 1, if the vector search returns a candidate then retrieve()
\* returns a passage, and the context numbered in the prompt is not empty.
C7_ContextNeverEmpty ==
    /\ (RetrieveReturned /\ Search(index, rk * 4) # <<>>) => docs # <<>>
    /\ (pc = "generate" /\ Search(index, k * 4) # <<>>) => prompt # <<>>

\* the cleanup emptied the candidates and the word filter emptied the context
C7_Witness ==
    /\ pc = "generate"
    /\ ret = "refill"
    /\ raw # <<>>
    /\ Cleaned(raw) = <<>>
    /\ prompt # <<>>

\* every passage of source A comes before every passage of another source
SourceFirst(ds, A) ==
    \A i, j \in 1..Len(ds) :
        (DocBasename(ds[i]) = A /\ DocBasename(ds[j]) # A) => i < j

SourceNames == {"a", "b"}

\* C8 as claimed: every source A with m of the n passages of the stitched
\* pool, m >= max(2, n/2), comes first in what retrieve() returns, which has
\* at most k passages; also when another source has as many passages.
C8_MajorityFirst ==
    (RetrieveReturned /\ pool # <<>>) =>
        \A A \in SourceNames :
            (CountOf(pool, A) >= 2 /\ 2 * CountOf(pool, A) >= Len(pool)) =>
                SourceFirst(docs, A) /\ Len(docs) <= rk

\* the first position of a passage of source A
FirstOf(ds, A) == MinOf(PositionsOf(ds, A))

\* no source has more passages than A, and a source with as many appears
\* later in the pool
LeadsPool(ds, A) ==
    \A i \in 1..Len(ds) :
        DocBasename(ds[i]) # A =>
            \/ CountOf(ds, DocBasename(ds[i])) < CountOf(ds, A)
            \/ /\ CountOf(ds, DocBasename(ds[i])) = CountOf(ds, A)
               /\ FirstOf(ds, A) < i

\* C8 as amended: the same for the source A that no other source exceeds and
\* that appears in the pool before every source with as many passages.
C8_LeadingSourceFirst ==
    (RetrieveReturned /\ pool # <<>>) =>
        /\ Len(docs) <= rk
        /\ \A A \in SourceNames :
               (/\ CountOf(pool, A) >= 2
                /\ 2 * CountOf(pool, A) >= Len(pool)
                /\ LeadsPool(pool, A)) =>
                   SourceFirst(docs, A)

\* two sources with as many passages, the one that leads the pool moved in
\* front of a passage of the other, which is returned too
C8_Witness ==
    /\ RetrieveReturned
    /\ \E A, B \in SourceNames :
           /\ A # B
           /\ CountOf(pool, A) = CountOf(pool, B)
           /\ CountOf(pool, A) >= 2
           /\ 2 * CountOf(pool, A) >= Len(pool)
           /\ LeadsPool(pool, A)
           /\ ~SourceFirst(pool, A)
           /\ CountOf(docs, A) >= 1
           /\ CountOf(docs, B) >= 1

\* C9: when the retry invocation raises, answer() keeps the text of the first
\* response and goes on to return; when the first invocation raises, answer()
\* raises.
C9_RetryFailureSwallowed ==
    /\ [][(pc = "retry_generate" /\ log' = <<"ok", "fail">>) =>
             /\ pc' = "prune"
             /\ err' = "none"
             /\ text' = text
             /\ response' = response
             /\ ContainsAny(text', RefusalPhrases)
             /\ Len(ctx_docs) > Len(built)]_vars
    /\ [](log = <<"ok", "fail">> =>
             /\ pc \in {"prune", "dedup", "renumber", "hide", "done"}
             /\ err = "none")
    /\ [](log = <<"fail">> => pc = "raised" /\ err = "ModelUnavailable")

C9_Witness == Returned /\ log = <<"ok", "fail">>

\* s is a subsequence of t
IsSubseq(s, t) ==
    \E f \in [1..Len(s) -> 1..Len(t)] :
        /\ \A i \in 1..Len(s) : s[i] = t[f[i]]
        /\ \A i, j \in 1..Len(s) : i < j => f[i] < f[j]

\* C10: the dedup of the citations by (title, url): applied again it changes
\* nothing; its result has pairwise distinct keys, is a subsequence of its
\* input and has every key of its input.
C10_DedupIdempotent ==
    [][(pc = "dedup" /\ pc' = "renumber") =>
          /\ DedupCitations(citations') = citations'
          /\ DistinctKeys(citations')
          /\ IsSubseq(citations', citations)
          /\ Range(citations') = Range(citations)]_vars

\* the dedup has dropped a citation
C10_Witness ==
    /\ pc = "renumber"
    /\ Len(citations) < Len(PruneToUsed(built, MarkerSet(text)))

\* the marker that the renumbering step writes for the old marker n
RewrittenMarker(t, cits, n) == RenumberFinal(MappingOf(t, cits), n)

\* C11: the renumbering step, for every marker [n] of the response with
\* 1 <= n <= the number of citations built: the marker it is rewritten to
\* is in the text and indexes a citation kept with the same (title, url) as
\* the citation built from context passage n.
C11_AttributionPreserved ==
    [][(pc = "renumber" /\ pc' = "hide") =>
          \A n \in MarkerSet(text) \cap (1..Len(built)) :
              /\ RewrittenMarker(text, citations, n) \in MarkerSet(text')
              /\ RewrittenMarker(text, citations, n) \in 1..Len(citations')
              /\ CitationKey(citations'[RewrittenMarker(text, citations, n)])
                     = CitationKey(built[n])]_vars

\* C12: when the reconciliation starts, the citation list has one entry per
\* passage numbered in the last prompt sent to the model, in the same order:
\* entry i is the citation of the passage rendered as [i]; also after a retry
\* has extended the context.
C12_CitationsMatchPrompt ==
    pc = "prune" =>
        /\ Len(citations) = Len(prompt)
        /\ \A i \in 1..Len(citations) : citations[i] = CitationOf(prompt[i])

\* answer() has returned or raised
Terminated == pc \in {"done", "raised"}

\* C13: per call of answer() the model is invoked at most twice, and at least
\* once before the reconciliation and the return; the second invocation
\* follows a first response with a refusal phrase and a retry retrieval of at
\* most 2 passes, asking for 2k then 3k passages, that added a passage; there
\* is no invocation after the second, whatever the second response is, and
\* answer() terminates.
C13_InvokedOnceOrTwice ==
    /\ [](Len(log) <= 2)
    /\ [](pc \in {"check", "retry", "retry_generate", "prune", "dedup", "renumber",
                  "hide", "done"} => Len(log) >= 1)
    /\ [][Len(log') = Len(log) + 1]_log
    /\ [][Len(log') = 2 =>
             /\ pc = "retry_generate"
             /\ log[1] = "ok"
             /\ ContainsAny(text, RefusalPhrases)
             /\ added_docs # <<>>
             /\ Len(prompt) > Len(built)
             /\ pass_i \in 0..(RetryPasses - 1)]_log
    /\ [][(ret' = "retry" /\ pc' = "search") =>
             /\ pass_i' \in 0..(RetryPasses - 1)
             /\ rk' = k * (pass_i' + 2)
             /\ Len(log) = 1]_<<pc, pass_i>>
    /\ [](Len(log) = 2 => pc \in {"prune", "dedup", "renumber", "hide", "done"})
    /\ <>Terminated

\* answer() has returned after two invocations, the second response a
\* refusal again
C13_Witness ==
    /\ Returned
    /\ log = <<"ok", "ok">>
    /\ ContainsAny(response, RefusalPhrases)

\* the passages of ds have pairwise different identities (basename, page)
DistinctIdentities(ds) ==
    \A i, j \in 1..Len(ds) : i # j => Identity(ds[i]) # Identity(ds[j])

\* C14: the passages that answer() numbers in the first prompt, after
\* retrieve(), the adjacent-page expansion and the word filter, have pairwise
\* different identities (basename(source), page).
C14_PromptIdentitiesDistinct ==
    pc = "generate" => DistinctIdentities(prompt)

\* the passages that a step has appended to all_attempted are at the
\* positions after Len(all_attempted)
AddedPositions == (Len(all_attempted) + 1)..Len(all_attempted')

\* C15: each pass of the retry retrieval appends to the attempted context only
\* passages whose (source, page) differs from every passage before them, the
\* ones of the pre-retry context and the ones added earlier; the pre-retry
\* context stays the prefix, also of the context of the retry prompt; a pass
\* that appends nothing ends the retry retrieval.
C15_RetryExclusion ==
    [][pc = "retry" =>
          /\ Len(all_attempted') >= Len(all_attempted)
          /\ Take(all_attempted', Len(all_attempted)) = all_attempted
          /\ Take(all_attempted', Len(ctx_docs)) = ctx_docs
          /\ \A i \in AddedPositions : \A j \in 1..(i - 1) :
                 RetryKey(all_attempted'[j]) # RetryKey(all_attempted'[i])
          /\ added_docs' = SubSeq(all_attempted', Len(ctx_docs) + 1, Len(all_attempted'))
          /\ AddedPositions = {} => pc' # "search"
          /\ pc' = "retry_generate" =>
                 /\ ctx_docs' = all_attempted'
                 /\ Take(ctx_docs', Len(ctx_docs)) = ctx_docs
                 /\ Len(ctx_docs') > Len(ctx_docs)
          /\ pc' # "retry_generate" => ctx_docs' = ctx_docs]_vars

\* two passes have each added a passage, the second from a retrieval that
\* also returned passages already in the context
C15_Witness ==
    /\ pc = "retry_generate"
    /\ pass_i = 1
    /\ Len(added_docs) = 2
    /\ \E i \in 1..Len(docs) : docs[i] = ctx_docs[1]

\* C16: an answer() that runs while reload() runs never finds the index
\* unusable and reads one version only: every read of the index by answer()
\* sees a complete collection, never a deleted or partially built one, all
\* its reads see the same version, and no read raises.
C16_ReloadKeepsIndexUsable ==
    /\ \A i \in 1..Len(reads) : reads[i].state = "complete"
    /\ \A i, j \in 1..Len(reads) : reads[i].version = reads[j].version
    /\ err # "IndexUnavailable"

\* the page of a passage is known, page 0 included
KnownPage(d) == d.page # NoPage

\* the first passages of their source among the first 2k passages of ps
FirstOfSource(ps, kk) ==
    {i \in 1..Min2(2 * kk, Len(ps)) :
        /\ ps[i].src # ""
        /\ \A j \in 1..(i - 1) : ps[j].src # ps[i].src}

\* the passages that Step 4 has appended to the pool ps
Appended(ps, stitched) == Range(SubSeq(stitched, Len(ps) + 1, Len(stitched)))

\* C17: Step 4 of retrieve(), for the first passage of each source among the
\* first 2k passages of the filtered pool, if its page p is known (any
\* integer, 0 included): for the pages p - 1 and p + 1, the passage that the
\* lookup finds is appended to the pool handed to Step 5, unless that lookup
\* raised; a lookup that raised omits only its own neighbor.
C17_NeighborsOfKnownPages ==
    [][(pc = "stitch" /\ pc' = "prefer") =>
          \A i \in FirstOfSource(KeywordPool(Cleaned(raw), hasKws), rk) :
              KnownPage(KeywordPool(Cleaned(raw), hasKws)[i]) =>
                  \A adj \in {KeywordPool(Cleaned(raw), hasKws)[i].page - 1,
                              KeywordPool(Cleaned(raw), hasKws)[i].page + 1} :
                      (/\ Lookup(index, KeywordPool(Cleaned(raw), hasKws)[i].src, adj) # <<>>
                       /\ <<KeywordPool(Cleaned(raw), hasKws)[i].src, adj>> \notin raised_lookups') =>
                          Passage(KeywordPool(Cleaned(raw), hasKws)[i].src, adj,
                                  Lookup(index, KeywordPool(Cleaned(raw), hasKws)[i].src, adj)[1])
                              \in Appended(KeywordPool(Cleaned(raw), hasKws), pool')]_vars

====
